---- MODULE Spec2Model ----
(***************************************************************************)
(* Model of the frame-driven synchronisation layer of the golden word      *)
(* game: the user-event buffer (userEvents.svelte.ts), the state slices    *)
(* (clock, grid, score, triplets, found words), grid reconstruction        *)
(* (transformToGrid) and the frame driver (createGameState / tick).        *)
(*                                                                         *)
(* JavaScript is single threaded and every handler below is synchronous,   *)
(* so each handler is one atomic action.  The WASM engine is an opaque     *)
(* collaborator: each call of its tick either raises or returns one of a   *)
(* small family of snapshots.                                              *)
(***************************************************************************)
EXTENDS Integers, Sequences, FiniteSets, TLC

(* ------------------------------ bounds -------------------------------- *)
MaxX == 1            \* grid columns are 0..MaxX
MaxY == 1            \* grid rows are 0..MaxY
MaxLetter == 1       \* letter codes are 0..MaxLetter
MaxClicks == 3       \* clicks recorded in one behaviour
MaxNow == 1          \* frame timestamps are 0..MaxNow
MaxTicks == 2        \* frames run in one behaviour
MaxInputTicks == 1   \* frames run next to direct calls on the buffer
MaxInputClicks == 2  \* clicks recorded next to direct calls on the buffer
MaxVariant == 2      \* engine snapshots are variants 0..MaxVariant
MaxRaw == 3          \* longest cell list given to transformToGrid
MaxRawTriplets == 6  \* longest raw code list given to createTripletsState
MaxIndex == 3        \* indexes given to updateIndex are 0..MaxIndex
MaxCode == 2         \* codes given to getLetter and getWord are 0..MaxCode
MaxWord == 3         \* longest code list given to getWord

(* --------------------------- program values --------------------------- *)
\* `null` and `undefined` of an optional value: an optional value v is <<v>>.
NULL == <<>>
Some(v) == <<v>>

\* number `undefined` read past the end of a number[] (codes are >= 0).
UndefinedCode == -1

Positions == { [x |-> px, y |-> py] : px \in 0..MaxX, py \in 0..MaxY }
LetterCodes == 0..MaxLetter
CellRecords ==
    { [position |-> p, letter |-> l] : p \in Positions, l \in LetterCodes }

SeqsUpTo(S, n) == UNION { [1..k -> S] : k \in 0..n }

VARIABLES
    \* userEvents.svelte.ts
    userClicks, lastHovered,
    \* game state: frame driver and host scheduler
    lastFrame, pendingFrames,
    \* state slices
    remaining, grid, current, words,
    \* triplets slice
    rawTriplets, triplets, currentIndex,
    \* observations of calls and results (history only, never read by code)
    recorded, drained, drainLog, sinceDrain, hovered, overwrote, hoverReads,
    nows, engineCalls, engineArgs, passed, firstBranch, snapshot, failed, surfaced,
    gridInput, nextRead,
    \* letter table: the engine's table, the bound context, the last call
    lettersTable, lettersContext, letterRead,
    \* more observations: steps and deltas of tick, reads of the triplets slice
    tickSteps, deltas, futureRead, remainingRead

userVars == <<userClicks, lastHovered>>
frameVars == <<lastFrame, pendingFrames>>
sliceVars == <<remaining, grid, current, words, currentIndex>>
tripletVars == <<rawTriplets, triplets>>
bufferObs == <<recorded, drained, drainLog, sinceDrain, hovered, overwrote, hoverReads>>
tickObs == <<nows, engineCalls, engineArgs, passed, firstBranch, snapshot, failed, surfaced>>
otherObs == <<gridInput, nextRead>>
letterVars == <<lettersTable, lettersContext, letterRead>>
stepObs == <<tickSteps, deltas>>
tripletObs == <<futureRead, remainingRead>>
vars == <<userVars, frameVars, sliceVars, tripletVars, bufferObs, tickObs, otherObs,
          letterVars, stepObs, tripletObs>>

(* ------------------------ userEvents.svelte.ts ------------------------ *)
\* a click that is put at the front of the queue
clickFront(clicks, position) == <<position>> \o clicks

\* click(position): userClicks = [...userClicks, position]
click(clicks, position) == Append(clicks, position)

\* hover(position): lastHovered = position
hover(last, position) == Some(position)

\* a drain that forgets to reset the queue
extractUserClicksKeep(clicks) == [clicks |-> clicks, userClicks |-> clicks]

\* extractUserClicks(): returns the queue and resets it to []
extractUserClicks(clicks) == [clicks |-> clicks, userClicks |-> <<>>]

\* a read that consumes the hover value as a drain would
getLastHoveredClear(last) == [value |-> last, lastHovered |-> NULL]

\* get lastHovered(): returns the value, leaves it in place
getLastHovered(last) == [value |-> last, lastHovered |-> last]

(* ---------------------------- state slices ---------------------------- *)
\* clock.update(newRemaining): remaining = newRemaining
clockUpdate(old, newRemaining) == newRemaining

\* grid.update(newGrid): grid = newGrid
gridUpdate(old, newGrid) == newGrid

\* score.update(newScore): current = newScore
scoreUpdate(old, newScore) == newScore

\* an update that merges the new words into the held list
foundWordsAppend(old, newWords) == old \o newWords

\* foundWords.update(newWords): words = newWords
foundWordsUpdate(old, newWords) == newWords

\* triplets.updateIndex(newIndex): currentIndex = newIndex
updateIndex(old, newIndex) == newIndex

(* ------------------------- grid reconstruction ------------------------ *)
EmptyObject == [k \in {} |-> 0]

\* an insert that keeps the record already stored at (x, y)
insertCellKeepFirst(cells, rawCell) ==
    LET x == rawCell.position.x
        y == rawCell.position.y
        withRow == IF x \in DOMAIN cells
                     THEN cells
                     ELSE [k \in DOMAIN cells \cup {x} |->
                              IF k = x THEN EmptyObject ELSE cells[k]]
        row == withRow[x]
        newRow == [j \in DOMAIN row \cup {y} |->
                      IF j \in DOMAIN row THEN row[j] ELSE rawCell]
    IN  [k \in DOMAIN withRow |-> IF k = x THEN newRow ELSE withRow[k]]

\* one step of the reduce: create cells[x] if absent, then cells[x][y] = rawCell
insertCell(cells, rawCell) ==
    LET x == rawCell.position.x
        y == rawCell.position.y
        withRow == IF x \in DOMAIN cells
                     THEN cells
                     ELSE [k \in DOMAIN cells \cup {x} |->
                              IF k = x THEN EmptyObject ELSE cells[k]]
        row == withRow[x]
        newRow == [j \in DOMAIN row \cup {y} |-> IF j = y THEN rawCell ELSE row[j]]
    IN  [k \in DOMAIN withRow |-> IF k = x THEN newRow ELSE withRow[k]]

RECURSIVE reduceCells(_, _)
reduceCells(cells, raw) ==
    IF raw = <<>> THEN cells
    ELSE reduceCells(insertCell(cells, Head(raw)), Tail(raw))

\* raw.reduce(insert, {})
transformToGrid(raw) == reduceCells(EmptyObject, raw)

(* --------------------------- triplets slice --------------------------- *)
\* rawTriplets[i] of a JavaScript array, 0-based; undefined past the end
rawAt(raw, i) == IF i + 1 \in 1..Len(raw) THEN raw[i + 1] ELSE UndefinedCode

\* for (i = 0; i < rawTriplets.length; i += 3) triplets.push({...})
RECURSIVE buildTriplets(_, _)
buildTriplets(raw, i) ==
    IF i < Len(raw)
      THEN <<[letter1 |-> rawAt(raw, i),
              letter2 |-> rawAt(raw, i + 1),
              letter3 |-> rawAt(raw, i + 2)]>> \o buildTriplets(raw, i + 3)
      ELSE <<>>

createTriplets(raw) == buildTriplets(raw, 0)

\* get next(): triplets[currentIndex]; an index outside the array reads
\* undefined, nothing is thrown
next(ts, index) ==
    [threw |-> "none",
     value |-> IF index + 1 \in 1..Len(ts) THEN Some(ts[index + 1]) ELSE NULL]

\* a slice that starts at the current triplet
futureFromIndex(ts, index) == SubSeq(ts, index + 1, Len(ts))

\* get future(): triplets.slice(currentIndex + 1), for currentIndex >= 0
future(ts, index) == SubSeq(ts, index + 2, Len(ts))

\* get numberOfRemainingLetters()
numberOfRemainingLetters(ts, index) == (Len(ts) - index) * 3

(* ----------------------------- the engine ----------------------------- *)
ClockMaxMs == 20000

\* the triplets the engine hands out at session start
EngineTriplets == [i \in 1..6 |-> i % (MaxLetter + 1)]

\* snapshot.grid() of variant v: v cells, positions repeat from the third on
VariantCells(v) ==
    [i \in 1..v |->
        [position |-> [x |-> i % 2, y |-> 0], letter |-> (i + v) % (MaxLetter + 1)]]

\* snapshot.found_words() of variant v
VariantWords(v) ==
    [i \in 1..v |-> [letters |-> <<i % (MaxLetter + 1), v % (MaxLetter + 1)>>, score |-> i]]

\* what the engine exposes after a step that returned variant v
EngineSnapshot(v) ==
    [clock_remaining_ms |-> ClockMaxMs - 16 * (v + 1),
     cells |-> VariantCells(v),
     found_words |-> VariantWords(v),
     score |-> 10 * v,
     triplets_current_index |-> v % 3]

Variants == 0..MaxVariant

(* --------------------------- the frame driver ------------------------- *)
\* if (lastFrame === 0) lastFrame = now; delta = now - lastFrame; lastFrame = now
frameDelta(last, now) ==
    LET reference == IF last = 0 THEN now ELSE last
    IN  [first |-> (last = 0), delta |-> now - reference, lastFrame |-> now]

\* a tick that requests the next frame before it writes the slices
tickOrderScheduleFirst(raised) ==
    IF raised
      THEN <<"extractUserClicks", "lastHovered", "wasmGame.tick">>
      ELSE <<"extractUserClicks", "lastHovered", "wasmGame.tick",
             "requestAnimationFrame", "clock.update", "grid.update",
             "score.update", "triplets.updateIndex", "foundWords.update">>

\* the calls one tick makes, in program order: the arguments of wasmGame.tick
\* left to right, the call, then lines 36-42; a raising call ends the list
tickOrder(raised) ==
    IF raised
      THEN <<"extractUserClicks", "lastHovered", "wasmGame.tick">>
      ELSE <<"extractUserClicks", "lastHovered", "wasmGame.tick",
             "clock.update", "grid.update", "score.update",
             "triplets.updateIndex", "foundWords.update",
             "requestAnimationFrame">>

(* --------------------------- letter resolution ------------------------ *)
\* the reserved code of an empty cell
EmptyCode == 0

\* is_empty_cell(code), a free function of the engine
is_empty_cell(code) == code = EmptyCode

Codes == 0..MaxCode

\* a letters table holds a character and a score for some of the codes
LetterEntry(code) == [char |-> code, score |-> code + 1]
LettersTables == { [c \in D |-> LetterEntry(c)] : D \in SUBSET Codes }

\* the table of the running engine: an entry for every code of a letter
EngineLetters == [c \in Codes \ {EmptyCode} |-> LetterEntry(c)]

\* lettersTable.try_get_letter_char(index): the character or undefined
try_get_letter_char(table, index) ==
    IF index \in DOMAIN table THEN Some(table[index].char) ELSE NULL

\* lettersTable.try_get_letter_score(index): the score or undefined
try_get_letter_score(table, index) ==
    IF index \in DOMAIN table THEN Some(table[index].score) ELSE NULL

\* initLettersTableContext(lettersTable): setContext of the two closures
initLettersTableContext(table) == Some(table)

\* a getLetter that reads the table before it tests for the empty code
getLetterLookupFirst(context, index) ==
    IF context = NULL
      THEN [threw |-> "TypeError", value |-> NULL, lookups |-> 0]
      ELSE IF is_empty_cell(index)
             THEN [threw |-> "none", value |-> NULL, lookups |-> 2]
             ELSE [threw |-> "none",
                   value |-> Some([index |-> index,
                                   char |-> try_get_letter_char(context[1], index),
                                   score |-> try_get_letter_score(context[1], index)]),
                   lookups |-> 2]

\* getLetter(index): null for the empty code; otherwise getContext and the
\* two table reads.  With no context set getContext yields undefined and
\* context.getLetter raises a TypeError.  lookups counts the table reads.
getLetter(context, index) ==
    IF is_empty_cell(index)
      THEN [threw |-> "none", value |-> NULL, lookups |-> 0]
      ELSE IF context = NULL
             THEN [threw |-> "TypeError", value |-> NULL, lookups |-> 0]
             ELSE [threw |-> "none",
                   value |-> Some([index |-> index,
                                   char |-> try_get_letter_char(context[1], index),
                                   score |-> try_get_letter_score(context[1], index)]),
                   lookups |-> 2]

\* a map that leaves the empty codes out of the word instead of throwing
RECURSIVE mapLettersSkipEmpty(_, _, _, _, _)
mapLettersSkipEmpty(context, letters, i, acc, n) ==
    IF i > Len(letters)
      THEN [threw |-> "none", value |-> acc, lookups |-> n]
      ELSE LET letter == getLetter(context, letters[i])
           IN  IF letter.threw # "none"
                 THEN [threw |-> letter.threw, value |-> <<>>, lookups |-> n]
                 ELSE IF letter.value = NULL
                        THEN mapLettersSkipEmpty(context, letters, i + 1, acc, n)
                        ELSE mapLettersSkipEmpty(context, letters, i + 1,
                                 Append(acc, letter.value[1]), n + letter.lookups)

\* letters.map(...): the callback runs on the codes in order and the first
\* exception ends the map; a null letter throws Error("Invalid letter index")
RECURSIVE mapLetters(_, _, _, _, _)
mapLetters(context, letters, i, acc, n) ==
    IF i > Len(letters)
      THEN [threw |-> "none", value |-> acc, lookups |-> n]
      ELSE LET letter == getLetter(context, letters[i])
           IN  IF letter.threw # "none"
                 THEN [threw |-> letter.threw, value |-> <<>>, lookups |-> n]
                 ELSE IF letter.value = NULL
                        THEN [threw |-> "Error", value |-> <<>>, lookups |-> n]
                        ELSE mapLetters(context, letters, i + 1,
                                 Append(acc, letter.value[1]), n + letter.lookups)

\* getWord(letters)
getWord(context, letters) == mapLetters(context, letters, 1, <<>>, 0)

\* createGameState line 13: the engine's table is bound before anything else
LettersBound ==
    /\ lettersTable = EngineLetters
    /\ lettersContext = initLettersTableContext(lettersTable)

(* ------------------------------- Init --------------------------------- *)
\* createGameState: every slice at its constructor value, lastFrame = 0,
\* and the first requestAnimationFrame(tick) already issued
InitSession ==
    /\ userClicks = <<>>
    /\ lastHovered = NULL
    /\ lastFrame = 0
    /\ pendingFrames = 1
    /\ remaining = ClockMaxMs
    /\ grid = NULL
    /\ current = 0
    /\ words = <<>>
    /\ currentIndex = 0
    /\ recorded = <<>>
    /\ drained = <<>>
    /\ drainLog = <<>>
    /\ sinceDrain = 0
    /\ hovered = NULL
    /\ overwrote = FALSE
    /\ hoverReads = <<>>
    /\ nows = <<>>
    /\ engineCalls = 0
    /\ engineArgs = NULL
    /\ passed = <<>>
    /\ firstBranch = NULL
    /\ snapshot = NULL
    /\ failed = FALSE
    /\ surfaced = 0
    /\ nextRead = NULL
    /\ letterRead = NULL
    /\ tickSteps = <<>>
    /\ deltas = <<>>
    /\ futureRead = NULL
    /\ remainingRead = NULL

Init ==
    /\ InitSession
    /\ rawTriplets = EngineTriplets
    /\ triplets = createTriplets(rawTriplets)
    /\ gridInput = <<>>
    /\ LettersBound

(* ------------------------- observation helpers ------------------------ *)
LastTwo(log) == IF Len(log) > 2 THEN SubSeq(log, Len(log) - 1, Len(log)) ELSE log

\* a call of extractUserClicks returned `result`
ObserveDrain(result) ==
    /\ drained' = drained \o result
    /\ drainLog' = LastTwo(Append(drainLog, [result |-> result, since |-> sinceDrain]))
    /\ sinceDrain' = 0

\* a read of lastHovered returned `value`; hoverReads is the last two reads
\* since the last hover was recorded
ObserveHoverRead(value) == hoverReads' = LastTwo(Append(hoverReads, value))

(* -------------------------- input handlers ---------------------------- *)
\* a click handler that also forgets the hovered cell
ClickClearsHover(position) ==
    /\ Len(recorded) < MaxClicks
    /\ userClicks' = click(userClicks, position)
    /\ lastHovered' = NULL
    /\ recorded' = Append(recorded, position)
    /\ sinceDrain' = sinceDrain + 1
    /\ UNCHANGED <<frameVars, sliceVars, tripletVars, tickObs, otherObs>>
    /\ UNCHANGED <<drained, drainLog, hovered, overwrote, hoverReads>>
    /\ UNCHANGED <<letterVars, stepObs, tripletObs>>

\* Cell.svelte onclick -> click(new Position(x, y))
Click(position) ==
    /\ Len(recorded) < MaxClicks
    /\ userClicks' = click(userClicks, position)
    /\ recorded' = Append(recorded, position)
    /\ sinceDrain' = sinceDrain + 1
    /\ UNCHANGED <<lastHovered, frameVars, sliceVars, tripletVars, tickObs, otherObs>>
    /\ UNCHANGED <<drained, drainLog, hovered, overwrote, hoverReads>>
    /\ UNCHANGED <<letterVars, stepObs, tripletObs>>

\* Cell.svelte onmouseover -> hover(new Position(x, y))
Hover(position) ==
    /\ lastHovered' = hover(lastHovered, position)
    /\ hovered' = Some(position)
    /\ overwrote' = (overwrote \/ (hovered # NULL /\ hovered # Some(position)))
    /\ hoverReads' = <<>>
    /\ UNCHANGED <<userClicks, frameVars, sliceVars, tripletVars, tickObs, otherObs>>
    /\ UNCHANGED <<recorded, drained, drainLog, sinceDrain>>
    /\ UNCHANGED <<letterVars, stepObs, tripletObs>>

\* a direct call of userEvents.extractUserClicks()
ExtractUserClicks ==
    LET ex == extractUserClicks(userClicks)
    IN  /\ userClicks' = ex.userClicks
        /\ ObserveDrain(ex.clicks)
        /\ UNCHANGED <<lastHovered, frameVars, sliceVars, tripletVars, tickObs, otherObs>>
        /\ UNCHANGED <<recorded, hovered, overwrote, hoverReads>>
        /\ UNCHANGED <<letterVars, stepObs, tripletObs>>

\* a direct read of userEvents.lastHovered
ReadLastHovered ==
    LET rd == getLastHovered(lastHovered)
    IN  /\ lastHovered' = rd.lastHovered
        /\ ObserveHoverRead(rd.value)
        /\ UNCHANGED <<userClicks, frameVars, sliceVars, tripletVars, tickObs, otherObs>>
        /\ UNCHANGED <<recorded, drained, drainLog, sinceDrain, hovered, overwrote>>
        /\ UNCHANGED <<letterVars, stepObs, tripletObs>>

(* ------------------------------- tick --------------------------------- *)
\* lines 26-33 of tick up to the engine call: the frame delta, then the
\* arguments of wasmGame.tick in evaluation order
TickCall(now) ==
    LET fd == frameDelta(lastFrame, now)
        ex == extractUserClicks(userClicks)
        rd == getLastHovered(lastHovered)
    IN  /\ pendingFrames > 0
        /\ Len(nows) < MaxTicks
        /\ lastFrame' = fd.lastFrame
        /\ userClicks' = ex.userClicks
        /\ lastHovered' = rd.lastHovered
        /\ ObserveDrain(ex.clicks)
        /\ ObserveHoverRead(rd.value)
        /\ nows' = Append(nows, now)
        /\ firstBranch' = Some(fd.first)
        /\ engineCalls' = engineCalls + 1
        /\ engineArgs' = Some([delta |-> fd.delta, clicks |-> ex.clicks, hover |-> rd.value])
        /\ passed' = passed \o ex.clicks
        /\ deltas' = Append(deltas, fd.delta)
        /\ UNCHANGED <<letterVars, tripletObs>>
        /\ UNCHANGED <<tripletVars, recorded, hovered, overwrote, nextRead>>

\* a tick that requests two frames after the slices are written
TickReturnedTwice(snap) ==
    /\ remaining' = clockUpdate(remaining, snap.clock_remaining_ms)
    /\ grid' = gridUpdate(grid, Some(transformToGrid(snap.cells)))
    /\ gridInput' = snap.cells
    /\ current' = scoreUpdate(current, snap.score)
    /\ currentIndex' = updateIndex(currentIndex, snap.triplets_current_index)
    /\ words' = foundWordsUpdate(words, snap.found_words)
    /\ pendingFrames' = (pendingFrames - 1) + 2
    /\ snapshot' = Some(snap)
    /\ tickSteps' = tickOrder(FALSE)
    /\ UNCHANGED <<failed, surfaced>>

\* the engine returned: lines 36-42, every slice updated, next frame requested
TickReturned(snap) ==
    /\ remaining' = clockUpdate(remaining, snap.clock_remaining_ms)
    /\ grid' = gridUpdate(grid, Some(transformToGrid(snap.cells)))
    /\ gridInput' = snap.cells
    /\ current' = scoreUpdate(current, snap.score)
    /\ currentIndex' = updateIndex(currentIndex, snap.triplets_current_index)
    /\ words' = foundWordsUpdate(words, snap.found_words)
    /\ pendingFrames' = (pendingFrames - 1) + 1
    /\ snapshot' = Some(snap)
    /\ tickSteps' = tickOrder(FALSE)
    /\ UNCHANGED <<failed, surfaced>>

\* a tick that clears the grid when the engine raised
TickRaisedClearsGrid ==
    /\ pendingFrames' = pendingFrames - 1
    /\ failed' = TRUE
    /\ surfaced' = surfaced + 1
    /\ tickSteps' = tickOrder(TRUE)
    /\ grid' = NULL
    /\ UNCHANGED <<remaining, current, words, currentIndex, gridInput, snapshot>>

\* a tick that requests the next frame even though the engine raised
TickRaisedReschedule ==
    /\ pendingFrames' = (pendingFrames - 1) + 1
    /\ failed' = TRUE
    /\ surfaced' = surfaced + 1
    /\ tickSteps' = tickOrder(TRUE)
    /\ UNCHANGED <<sliceVars, gridInput, snapshot>>

\* the engine raised: the exception leaves tick at line 33 and reaches the
\* host that ran the frame callback
TickRaised ==
    /\ pendingFrames' = pendingFrames - 1
    /\ failed' = TRUE
    /\ surfaced' = surfaced + 1
    /\ tickSteps' = tickOrder(TRUE)
    /\ UNCHANGED <<sliceVars, gridInput, snapshot>>

\* the host runs the pending frame callback with timestamp `now`
TickOk(now) == \E v \in Variants : TickCall(now) /\ TickReturned(EngineSnapshot(v))

TickThrow(now) == TickCall(now) /\ TickRaised

Nows == 0..MaxNow

Next ==
    \/ \E p \in Positions : Click(p)
    \/ \E p \in Positions : Hover(p)
    \/ \E now \in Nows : TickOk(now)
    \/ \E now \in Nows : TickThrow(now)

Spec == Init /\ [][Next]_vars

(* ------------------- the user-event buffer on its own ----------------- *)
NextBuffer ==
    \/ \E p \in Positions : Click(p)
    \/ \E p \in Positions : Hover(p)
    \/ ExtractUserClicks
    \/ ReadLastHovered

SpecBuffer == Init /\ [][NextBuffer]_vars

(* ------------- the session with direct calls on the buffer ------------ *)
NextInput ==
    \/ \E p \in Positions : Len(recorded) < MaxInputClicks /\ Click(p)
    \/ \E p \in Positions : Hover(p)
    \/ ExtractUserClicks
    \/ ReadLastHovered
    \/ \E now \in Nows : Len(nows) < MaxInputTicks /\ TickOk(now)
    \/ \E now \in Nows : Len(nows) < MaxInputTicks /\ TickThrow(now)

SpecInput == Init /\ [][NextInput]_vars

(* ---------------------- transformToGrid on its own -------------------- *)
\* a session about to rebuild its grid from an arbitrary cell list
InitGrid ==
    /\ InitSession
    /\ rawTriplets = EngineTriplets
    /\ triplets = createTriplets(rawTriplets)
    /\ gridInput \in SeqsUpTo(CellRecords, MaxRaw)
    /\ LettersBound

\* grid.update(transformToGrid(raw))
Transform ==
    /\ grid = NULL
    /\ grid' = gridUpdate(grid, Some(transformToGrid(gridInput)))
    /\ UNCHANGED <<userVars, frameVars, remaining, current, words, currentIndex>>
    /\ UNCHANGED <<tripletVars, bufferObs, tickObs, otherObs>>
    /\ UNCHANGED <<letterVars, stepObs, tripletObs>>

NextGrid == Transform

SpecGrid == InitGrid /\ [][NextGrid]_vars

(* ---------------------- the triplets slice on its own ----------------- *)
\* createTripletsState(rawTriplets) for an arbitrary raw code list
InitTriplets ==
    /\ InitSession
    /\ rawTriplets \in SeqsUpTo(LetterCodes, MaxRawTriplets)
    /\ triplets = createTriplets(rawTriplets)
    /\ gridInput = <<>>
    /\ LettersBound

\* triplets.updateIndex(newIndex)
UpdateIndex(newIndex) ==
    /\ currentIndex' = updateIndex(currentIndex, newIndex)
    /\ nextRead' = NULL
    /\ futureRead' = NULL
    /\ remainingRead' = NULL
    /\ UNCHANGED <<userVars, frameVars, remaining, grid, current, words>>
    /\ UNCHANGED <<tripletVars, bufferObs, tickObs, gridInput, letterVars, stepObs>>

\* a read of triplets.next
ReadNext ==
    /\ nextRead' = Some(next(triplets, currentIndex))
    /\ UNCHANGED <<userVars, frameVars, sliceVars, tripletVars, bufferObs, tickObs, gridInput>>
    /\ UNCHANGED <<letterVars, stepObs, tripletObs>>

\* a read of triplets.future
ReadFuture ==
    /\ futureRead' = Some(future(triplets, currentIndex))
    /\ UNCHANGED <<userVars, frameVars, sliceVars, tripletVars, bufferObs, tickObs>>
    /\ UNCHANGED <<otherObs, letterVars, stepObs, remainingRead>>

\* a read of triplets.numberOfRemainingLetters
ReadRemaining ==
    /\ remainingRead' = Some(numberOfRemainingLetters(triplets, currentIndex))
    /\ UNCHANGED <<userVars, frameVars, sliceVars, tripletVars, bufferObs, tickObs>>
    /\ UNCHANGED <<otherObs, letterVars, stepObs, futureRead>>

NextTriplets ==
    \/ \E i \in 0..MaxIndex : UpdateIndex(i)
    \/ ReadNext
    \/ ReadFuture
    \/ ReadRemaining

SpecTriplets == InitTriplets /\ [][NextTriplets]_vars

(* ---------------------- letter resolution on its own ------------------ *)
\* the module before initLettersTableContext, over an arbitrary table
InitLetters ==
    /\ InitSession
    /\ rawTriplets = EngineTriplets
    /\ triplets = createTriplets(rawTriplets)
    /\ gridInput = <<>>
    /\ lettersTable \in LettersTables
    /\ lettersContext = NULL

\* initLettersTableContext(wasmGame.get_letters_table())
InitLettersTableContext ==
    /\ lettersContext = NULL
    /\ lettersContext' = initLettersTableContext(lettersTable)
    /\ letterRead' = NULL
    /\ UNCHANGED <<userVars, frameVars, sliceVars, tripletVars, bufferObs, tickObs>>
    /\ UNCHANGED <<otherObs, lettersTable, stepObs, tripletObs>>

\* what a call of getLetter or getWord was given and what came of it
ObserveLetters(op, input, result) ==
    letterRead' = Some([op |-> op, input |-> input,
                        bound |-> (lettersContext # NULL),
                        threw |-> result.threw, value |-> result.value,
                        lookups |-> result.lookups])

\* a call of getLetter(index); the letter read is <<>> for null
GetLetter(index) ==
    LET r == getLetter(lettersContext, index)
    IN  /\ ObserveLetters("getLetter", <<index>>, r)
        /\ UNCHANGED <<userVars, frameVars, sliceVars, tripletVars, bufferObs, tickObs>>
        /\ UNCHANGED <<otherObs, lettersTable, lettersContext, stepObs, tripletObs>>

\* a call of getWord(letters)
GetWord(letters) ==
    LET r == getWord(lettersContext, letters)
    IN  /\ ObserveLetters("getWord", letters, r)
        /\ UNCHANGED <<userVars, frameVars, sliceVars, tripletVars, bufferObs, tickObs>>
        /\ UNCHANGED <<otherObs, lettersTable, lettersContext, stepObs, tripletObs>>

NextLetters ==
    \/ InitLettersTableContext
    \/ \E c \in Codes : GetLetter(c)
    \/ \E w \in SeqsUpTo(Codes, MaxWord) : GetWord(w)

SpecLetters == InitLetters /\ [][NextLetters]_vars

(* ============================== claims ================================ *)
Last(seq) == seq[Len(seq)]

\* the clicks of `recorded` numbered from+1 .. to
Segment(from, to) == SubSeq(recorded, from + 1, to)

(* C1: for any interleaving of click and extractUserClicks on one buffer,  *)
(* each drain returns exactly the clicks recorded since the previous drain *)
(* (or since creation), in arrival order, none missing, duplicated or      *)
(* reordered: what has been returned so far followed by what is queued is  *)
(* the recorded sequence, and the latest drain returned the segment of the *)
(* recorded sequence that arrived after the drain before it.               *)
C1_DrainReturnsClicksSincePreviousDrain ==
    /\ drained \o userClicks = recorded
    /\ drainLog # <<>> =>
          /\ Len(Last(drainLog).result) = Last(drainLog).since
          /\ Last(drainLog).result =
                Segment(Len(drained) - Last(drainLog).since, Len(drained))

\* two drains, the first returned one click, the second two clicks in order
C1_Witness ==
    /\ Len(drainLog) = 2
    /\ Len(drainLog[1].result) = 1
    /\ Len(drainLog[2].result) = 2
    /\ drainLog[2].result[1] # drainLog[2].result[2]
    /\ drainLog[2].result = Segment(1, 3)

(* C2: across any interleaving of clicks and frames, every recorded click  *)
(* is passed to the engine exactly once, by the first tick after it was    *)
(* recorded, and the click lists passed to successive engine calls         *)
(* concatenate to the recorded sequence: the lists passed so far followed  *)
(* by the queue are the recorded sequence, the queue holds exactly the     *)
(* clicks recorded after the last tick's drain, and the last engine call   *)
(* got exactly the clicks recorded between the two last drains.            *)
C2_EveryClickReachesEngineOnce ==
    /\ passed \o userClicks = recorded
    /\ Len(userClicks) = sinceDrain
    /\ engineArgs # NULL =>
          /\ drainLog # <<>>
          /\ engineArgs[1].clicks =
                Segment(Len(passed) - Last(drainLog).since, Len(passed))
          /\ Len(recorded) - sinceDrain = Len(passed)

\* two engine calls that each got one click, and a click recorded after the
\* second drain that is still queued
C2_Witness ==
    /\ engineCalls = 2
    /\ Len(passed) = 2
    /\ Len(engineArgs[1].clicks) = 1
    /\ Len(userClicks) = 1
    /\ recorded[1] # recorded[2]

(* C3: on every invocation of tick after the first, for any timestamps,    *)
(* the delta passed to the engine is now minus the now of the preceding    *)
(* invocation, and lastFrame equals now afterwards.                        *)
C3_DeltaIsNowMinusPreviousNow ==
    Len(nows) >= 2 =>
        /\ engineArgs[1].delta = nows[Len(nows)] - nows[Len(nows) - 1]
        /\ lastFrame = nows[Len(nows)]

(* C4: on the first invocation of tick, and only on the first, now is      *)
(* recorded as the reference time and the elapsed time is treated as zero; *)
(* the engine is still called, with delta 0, the drained clicks and the    *)
(* current hover.                                                          *)
C4_ReferenceTimeOnlyOnFirstTick ==
    nows # <<>> =>
        /\ firstBranch[1] <=> (Len(nows) = 1)
        /\ Len(nows) = 1 =>
              /\ engineCalls = 1
              /\ engineArgs[1].delta = 0
              /\ engineArgs[1].clicks = Segment(0, Len(passed))
              /\ hoverReads # <<>> => engineArgs[1].hover = hovered

(* C5: if the engine raises during a tick, the driver neither retries the  *)
(* call nor requests a following frame, so no further tick or engine call  *)
(* ever happens in the session, and the error reaches the caller of tick.  *)
C5_EngineFailureEndsSession ==
    /\ [](failed => (pendingFrames = 0 /\ surfaced = 1))
    /\ [][engineCalls' <= engineCalls + 1]_vars
    /\ [][failed => (engineCalls' = engineCalls /\ nows' = nows)]_vars

\* the first tick failed, a second one was still allowed by the bounds, and
\* input recorded after the failure stays queued
C5_Witness ==
    /\ failed
    /\ Len(nows) = 1
    /\ Len(nows) < MaxTicks
    /\ engineCalls = 1
    /\ userClicks # <<>>

(* C6: the hover value is last-write-wins and persistent: lastHovered is   *)
(* the position of the latest hover (null before any hover), every read    *)
(* since that hover returned it, whatever clicks, drains and ticks came in *)
(* between, and reading never clears it.                                   *)
C6_HoverIsLastWriteAndPersists ==
    /\ lastHovered = hovered
    /\ \A i \in 1..Len(hoverReads) : hoverReads[i] = hovered
    /\ engineArgs # NULL /\ hoverReads # <<>> => engineArgs[1].hover = hovered

\* a hover was overwritten by a different one and then read by two ticks
\* with a click drained in between
C6_Witness ==
    /\ overwrote
    /\ hovered # NULL
    /\ Len(hoverReads) = 2
    /\ engineCalls = 2
    /\ engineArgs[1].clicks # <<>>
    /\ lastHovered = hovered

\* the indexes of `raw` whose record sits at position (x, y)
IndexesAt(raw, x, y) ==
    { i \in 1..Len(raw) : raw[i].position = [x |-> x, y |-> y] }

MaxOf(S) == CHOOSE m \in S : \A k \in S : k <= m

\* the grid a cell list stands for: one entry per position that occurs,
\* holding the last record of the list at that position
GridOf(raw) ==
    LET xs == { raw[i].position.x : i \in 1..Len(raw) }
        ys(x) == { raw[i].position.y :
                     i \in { k \in 1..Len(raw) : raw[k].position.x = x } }
    IN  [x \in xs |-> [y \in ys(x) |-> raw[MaxOf(IndexesAt(raw, x, y))]]]

(* C7: after every tick that completes without error each slice holds      *)
(* exactly the value of that tick's engine step, replacing the previous    *)
(* value with no merging: clock.remaining is the snapshot's remaining      *)
(* time, the grid is the grid rebuilt from the snapshot's cell list,       *)
(* found words is the snapshot's list, score and triplet index are the     *)
(* engine's score and index after the step.                                *)
C7_SlicesHoldLastSnapshot ==
    (snapshot # NULL /\ ~failed) =>
        /\ remaining = snapshot[1].clock_remaining_ms
        /\ grid = Some(GridOf(snapshot[1].cells))
        /\ words = snapshot[1].found_words
        /\ current = snapshot[1].score
        /\ currentIndex = snapshot[1].triplets_current_index

\* two ticks completed, the second snapshot has found words and cells
C7_Witness ==
    /\ engineCalls = 2
    /\ ~failed
    /\ snapshot # NULL
    /\ Len(snapshot[1].found_words) = 1
    /\ words = snapshot[1].found_words
    /\ grid # NULL
    /\ grid # Some(EmptyObject)

(* C8: reading "next" while the current index is not a valid position of   *)
(* the triplet sequence fails with an IndexError; the index is never       *)
(* clamped, ignored or answered with an absent triplet.                    *)
C8_NextOutsideSequenceRaisesIndexError ==
    (nextRead # NULL /\ currentIndex \notin 0..(Len(triplets) - 1)) =>
        /\ nextRead[1].threw = "IndexError"
        /\ nextRead[1].value = NULL

(* C9 as stated: two drains in succession with no click recorded between   *)
(* them both return the empty sequence.                                    *)
C9_Original_BothDrainsEmpty ==
    (Len(drainLog) = 2 /\ drainLog[2].since = 0) =>
        /\ drainLog[1].result = <<>>
        /\ drainLog[2].result = <<>>

(* C9 amended: of two drains in succession with no click recorded between  *)
(* them the second returns the empty sequence, and the first does too when *)
(* no click was recorded since the drain before it (or since creation);    *)
(* draining the empty queue returns normally and leaves it empty.          *)
C9_SecondDrainEmpty ==
    /\ (Len(drainLog) = 2 /\ drainLog[2].since = 0) =>
          /\ drainLog[2].result = <<>>
          /\ drainLog[1].since = 0 => drainLog[1].result = <<>>
    /\ (drainLog # <<>> /\ sinceDrain = 0) => userClicks = <<>>

\* a drain that returned clicks followed at once by a drain that returned none
C9_Witness ==
    /\ Len(drainLog) = 2
    /\ drainLog[2].since = 0
    /\ drainLog[1].result # <<>>
    /\ drainLog[2].result = <<>>
    /\ sinceDrain = 0

(* C10: transformToGrid of any cell list yields a grid where grid[x][y] is *)
(* defined exactly for the positions (x, y) that occur in the list, every  *)
(* entry has grid[x][y].position = (x, y), and of several records at one   *)
(* position the entry is the last in input order.                          *)
C10_GridHoldsLastRecordPerPosition ==
    grid # NULL =>
        LET g == grid[1]
        IN  /\ \A x \in DOMAIN g : \A y \in DOMAIN g[x] :
                  /\ IndexesAt(gridInput, x, y) # {}
                  /\ g[x][y].position = [x |-> x, y |-> y]
                  /\ g[x][y] = gridInput[MaxOf(IndexesAt(gridInput, x, y))]
            /\ \A i \in 1..Len(gridInput) :
                  /\ gridInput[i].position.x \in DOMAIN g
                  /\ gridInput[i].position.y \in DOMAIN g[gridInput[i].position.x]

\* three records, the third at the position of the first with another
\* letter, the second in the same column on another row
C10_Witness ==
    /\ grid # NULL
    /\ Len(gridInput) = 3
    /\ gridInput[1].position = gridInput[3].position
    /\ gridInput[1].letter # gridInput[3].letter
    /\ gridInput[2].position.x = gridInput[1].position.x
    /\ gridInput[2].position.y # gridInput[1].position.y
    /\ grid[1][gridInput[1].position.x][gridInput[1].position.y] = gridInput[3]

\* the error classes of the specification as the code raises them: the Error
\* thrown by getWord, and the TypeError of a call on the missing context
IsLookupError(threw) == threw = "Error"
IsUninitializedServiceError(threw) == threw = "TypeError"

(* C11: for every code c with is_empty_cell(c), getLetter(c) yields null   *)
(* without raising and without any read of the letters table, whether or   *)
(* not the table is bound.                                                 *)
C11_EmptyCodeResolvesToNullWithoutLookup ==
    (letterRead # NULL /\ letterRead[1].op = "getLetter"
        /\ is_empty_cell(letterRead[1].input[1])) =>
        /\ letterRead[1].threw = "none"
        /\ letterRead[1].value = NULL
        /\ letterRead[1].lookups = 0

\* getLetter of the empty code on a bound table that has an entry for it
C11_Witness ==
    /\ letterRead # NULL
    /\ letterRead[1].op = "getLetter"
    /\ letterRead[1].input = <<EmptyCode>>
    /\ letterRead[1].bound
    /\ EmptyCode \in DOMAIN lettersTable
    /\ letterRead[1].value = NULL

(* C12: with the table bound, getWord(codes) raises the lookup error       *)
(* whenever a code of the sequence resolves to no letter (is the empty     *)
(* code), and otherwise returns one letter per code, in the order of the   *)
(* codes, each the letter of its code.                                     *)
C12_WordWithEmptyCodeRaises ==
    (letterRead # NULL /\ letterRead[1].op = "getWord" /\ letterRead[1].bound) =>
        LET codes == letterRead[1].input
            word == letterRead[1].value
        IN  IF \E i \in 1..Len(codes) : is_empty_cell(codes[i])
              THEN IsLookupError(letterRead[1].threw)
              ELSE /\ letterRead[1].threw = "none"
                   /\ Len(word) = Len(codes)
                   /\ \A i \in 1..Len(codes) :
                         /\ word[i].index = codes[i]
                         /\ word[i].char = try_get_letter_char(lettersTable, codes[i])
                         /\ word[i].score = try_get_letter_score(lettersTable, codes[i])

\* a word of three codes with the empty code in the middle raised
C12_Witness ==
    /\ letterRead # NULL
    /\ letterRead[1].op = "getWord"
    /\ letterRead[1].bound
    /\ Len(letterRead[1].input) = 3
    /\ ~is_empty_cell(letterRead[1].input[1])
    /\ is_empty_cell(letterRead[1].input[2])
    /\ ~is_empty_cell(letterRead[1].input[3])
    /\ letterRead[1].input[1] # letterRead[1].input[3]
    /\ IsLookupError(letterRead[1].threw)

(* C13: getLetter of a non-empty code for which the bound table has no     *)
(* entry raises the lookup error instead of returning a letter with a      *)
(* missing character or score.                                             *)
C13_MissingEntryRaisesLookupError ==
    (letterRead # NULL /\ letterRead[1].op = "getLetter" /\ letterRead[1].bound
        /\ ~is_empty_cell(letterRead[1].input[1])
        /\ letterRead[1].input[1] \notin DOMAIN lettersTable) =>
        /\ IsLookupError(letterRead[1].threw)
        /\ letterRead[1].value = NULL

(* C14: every getLetter or getWord call made before the table is bound     *)
(* raises the uninitialized-service error, for every input.                *)
C14_CallBeforeBindingRaises ==
    (letterRead # NULL /\ ~letterRead[1].bound) =>
        IsUninitializedServiceError(letterRead[1].threw)

\* the place of a call in the last tick, 0 when the tick did not make it
StepAt(step) ==
    IF \E i \in 1..Len(tickSteps) : tickSteps[i] = step
      THEN CHOOSE i \in 1..Len(tickSteps) : tickSteps[i] = step
      ELSE 0

SliceUpdates ==
    {"clock.update", "grid.update", "score.update",
     "triplets.updateIndex", "foundWords.update"}

(* C15: within every tick the click drain and the hover read come first,   *)
(* then the engine step, then all slice updates, and only then is the next *)
(* frame requested; a frame is never requested before every slice has been *)
(* written from the returned snapshot.                                     *)
C15_DrainThenEngineThenSlicesThenFrame ==
    tickSteps # <<>> =>
        /\ StepAt("extractUserClicks") > 0
        /\ StepAt("lastHovered") > 0
        /\ StepAt("extractUserClicks") < StepAt("wasmGame.tick")
        /\ StepAt("lastHovered") < StepAt("wasmGame.tick")
        /\ \A u \in SliceUpdates :
              StepAt(u) > 0 => StepAt("wasmGame.tick") < StepAt(u)
        /\ StepAt("requestAnimationFrame") > 0 =>
              \A u \in SliceUpdates :
                 StepAt(u) > 0 /\ StepAt(u) < StepAt("requestAnimationFrame")
        /\ (~failed) <=> (StepAt("requestAnimationFrame") > 0)

\* a second tick ran to its end and requested the next frame
C15_Witness ==
    /\ engineCalls = 2
    /\ ~failed
    /\ StepAt("requestAnimationFrame") = Len(tickSteps)
    /\ passed # <<>>
    /\ pendingFrames = 1

(* C16: at every point at most one frame callback is pending: exactly one  *)
(* after session start and after every tick that completes without error,  *)
(* none after a tick in which the engine raised.                           *)
C16_AtMostOnePendingFrame ==
    /\ pendingFrames \in {0, 1}
    /\ (~failed) => pendingFrames = 1
    /\ failed => pendingFrames = 0

\* two ticks completed and the third frame is pending
C16_Witness ==
    /\ engineCalls = 2
    /\ Len(nows) = 2
    /\ ~failed
    /\ pendingFrames = 1
    /\ snapshot # NULL

RECURSIVE SumOf(_)
SumOf(seq) == IF seq = <<>> THEN 0 ELSE Head(seq) + SumOf(Tail(seq))

NonDecreasing(seq) == \A i \in 1..(Len(seq) - 1) : seq[i] <= seq[i + 1]

(* C17: for any non-decreasing sequence of frame timestamps every delta    *)
(* passed to the engine is non-negative and the deltas passed so far add   *)
(* up to the latest timestamp minus the timestamp of the first tick.       *)
C17_DeltasSumToElapsedTime ==
    (nows # <<>> /\ NonDecreasing(nows)) =>
        /\ \A i \in 1..Len(deltas) : deltas[i] >= 0
        /\ SumOf(deltas) = nows[Len(nows)] - nows[1]

\* the k-th group of three of a raw code list, k counted from 0
GroupOfThree(raw, k) ==
    [letter1 |-> raw[3 * k + 1], letter2 |-> raw[3 * k + 2], letter3 |-> raw[3 * k + 3]]

(* C18: for every current index i with 0 <= i < n on a sequence of n       *)
(* triplets, built from the raw code list in consecutive groups of three,  *)
(* next is the triplet at position i, future is exactly the triplets at    *)
(* positions i+1 .. n-1 in order, and numberOfRemainingLetters is          *)
(* 3 * (n - i).                                                            *)
C18_NextFutureAndRemaining ==
    LET n == Len(triplets)
        i == currentIndex
    IN  /\ Len(rawTriplets) % 3 = 0 =>
              /\ 3 * n = Len(rawTriplets)
              /\ \A k \in 0..(n - 1) : triplets[k + 1] = GroupOfThree(rawTriplets, k)
        /\ (0 <= i /\ i < n) =>
              /\ nextRead # NULL =>
                    /\ nextRead[1].threw = "none"
                    /\ nextRead[1].value = Some(triplets[i + 1])
              /\ futureRead # NULL =>
                    /\ Len(futureRead[1]) = n - 1 - i
                    /\ \A j \in 1..(n - 1 - i) : futureRead[1][j] = triplets[i + 1 + j]
              /\ remainingRead # NULL =>
                    /\ remainingRead[1] = 3 * (n - i)
                    /\ remainingRead[1] = 3 * (1 + Len(future(triplets, i)))

\* two triplets of six codes, index 0, all three getters read
C18_Witness ==
    /\ Len(rawTriplets) = 6
    /\ Len(triplets) = 2
    /\ triplets[1] # triplets[2]
    /\ currentIndex = 0
    /\ nextRead # NULL
    /\ futureRead = Some(<<triplets[2]>>)
    /\ remainingRead = Some(6)

(* C19: input operations touch only their own part of the buffer: a click  *)
(* only appends to the queue, a hover only sets the hover value, a drain   *)
(* only changes the queue, a read of the hover value changes nothing, and  *)
(* lastFrame and the slices (clock, score, grid, triplet index, found      *)
(* words) change only inside tick.                                         *)
C19_InputTouchesOnlyItsOwnPart ==
    [][ /\ engineCalls' = engineCalls =>
              UNCHANGED <<lastFrame, pendingFrames, remaining, grid, current,
                          words, currentIndex>>
        /\ userClicks' # userClicks => lastHovered' = lastHovered
        /\ lastHovered' # lastHovered =>
              (userClicks' = userClicks /\ hovered' = lastHovered')
        /\ recorded' # recorded =>
              userClicks' = Append(userClicks, recorded'[Len(recorded')])
        /\ (engineCalls' = engineCalls /\ drainLog' # drainLog) =>
              (userClicks' = <<>> /\ lastHovered' = lastHovered)
        /\ (engineCalls' = engineCalls /\ hovered' = hovered
               /\ hoverReads' # hoverReads) =>
              UNCHANGED <<userClicks, lastHovered>>
      ]_vars

\* after a completed tick: a click is queued, a hover is set, and a direct
\* drain and direct reads of the hover value have happened
C19_Witness ==
    /\ engineCalls = 1
    /\ snapshot # NULL
    /\ userClicks # <<>>
    /\ lastHovered # NULL
    /\ Len(drainLog) = 2
    /\ Len(hoverReads) = 2
    /\ remaining = snapshot[1].clock_remaining_ms

\* the slice values of the constructors
InitialSlices ==
    /\ remaining = ClockMaxMs
    /\ grid = NULL
    /\ current = 0
    /\ words = <<>>
    /\ currentIndex = 0

(* C20: a tick in which the engine raises modifies no slice: remaining,    *)
(* grid, score, triplet index and found words keep the values written by   *)
(* the last tick that completed, or their initial values if none did.      *)
C20_FailedTickLeavesSlices ==
    /\ [][(failed' /\ ~failed) => UNCHANGED sliceVars]_vars
    /\ [](failed =>
            IF snapshot = NULL
              THEN InitialSlices
              ELSE /\ remaining = snapshot[1].clock_remaining_ms
                   /\ grid = Some(GridOf(snapshot[1].cells))
                   /\ current = snapshot[1].score
                   /\ currentIndex = snapshot[1].triplets_current_index
                   /\ words = snapshot[1].found_words)

\* the second tick failed after a first one that wrote cells and words
C20_Witness ==
    /\ failed
    /\ engineCalls = 2
    /\ snapshot # NULL
    /\ words # <<>>
    /\ grid # NULL
    /\ grid # Some(EmptyObject)

====
